---- MODULE Spec2Model ----
(***************************************************************************)
(* Archive synchronisation engine of stellartfan.                          *)
(*                                                                         *)
(*   scripts/fetch_videos.js          Discovery: rebuilds videos.json      *)
(*   scripts/fetch_comments.js        live-mode chat archiver              *)
(*   scripts/config/channels.js       (second half) ended-mode archiver    *)
(*                                                                         *)
(* The specifications share the variables of this module:                  *)
(*   SpecMerge      the transcript merge as a function of (existing, new)  *)
(*   SpecDiscovery  Discovery runs against a changing upstream             *)
(*   SpecIsolation  Discovery runs in which a channel lookup fails         *)
(*   SpecOrdering   Discovery runs over every assignment of publish times  *)
(*   SpecStatus     Discovery runs with upstream's details on record       *)
(*   SpecArchiver   archiver runs, one upstream call per step              *)
(*   SpecQuota      archiver runs on chats longer than a page budget       *)
(*   SpecRefetch    archiver runs, the upstream chat changing between runs *)
(*   SpecDamage     archiver runs on damaged data files                    *)
(*   SpecNoRegistry archiver runs without videos.json                     *)
(*   SpecPageBudget runs of fetch_comments.js on one live video            *)
(*   SpecTermination archiver runs against a chat that never ends         *)
(*   SpecGrowth     archiver runs, the upstream chat growing between runs  *)
(*   SpecColdStart  archiver runs after the cursor store was lost          *)
(*   SpecDrain      ended-archiver runs on one long chat                   *)
(***************************************************************************)
EXTENDS Integers, Sequences, FiniteSets, TLC

(***************************************************************************)
(* JavaScript values that are not strings of the model.                    *)
(***************************************************************************)
\* `undefined`: a property that is absent from an object.
Undefined == -2
\* `null`.
Null == -1
\* The empty string '' used as page token ("start from the first page").
EmptyToken == 0

(***************************************************************************)
(* Chat messages.  A message is the record pushed at                       *)
(* fetch_comments.js:214-219; the model keeps t (publishedAt) and m        *)
(* (displayMessage), the fields the merge reads.                           *)
(* Timestamps are naturals in half-millisecond units: upstream timestamps  *)
(* carry sub-millisecond digits, `new Date(t)` keeps milliseconds only, so *)
(* two different timestamp strings can denote the same Date.               *)
(***************************************************************************)
Timestamps == {0, 1, 2}
Texts == {0, 1}
MaxLen == 2

Messages == [t : Timestamps, m : Texts]

\* new Date(t) of the sort comparator: milliseconds.
DateOf(t) == t \div 2

\* `${msg.t}|${msg.m}`: the template string is one-to-one on (t, m) because
\* a timestamp never contains '|'.
MsgKey(msg) == <<msg.t, msg.m>>

\* new Set(existing.messages.map(msg => `${msg.t}|${msg.m}`))
existingTimestamps(messages) == {MsgKey(messages[i]) : i \in DOMAIN messages}

\* A filter that lets every message through.
uniqueNewMessagesUnfiltered(messages, newMsgs) == newMsgs

\* newMessages.filter(msg => !existingTimestamps.has(`${msg.t}|${msg.m}`))
uniqueNewMessages(messages, newMsgs) ==
    SelectSeq(newMsgs, LAMBDA msg : MsgKey(msg) \notin existingTimestamps(messages))

SetMin(S) == CHOOSE x \in S : \A y \in S : x <= y

RECURSIVE SortDates(_, _)
SortDates(s, dates) ==
    IF dates = {} THEN <<>>
    ELSE LET d == SetMin(dates)
         IN  SelectSeq(s, LAMBDA x : DateOf(x.t) = d) \o SortDates(s, dates \ {d})

\* Array.prototype.sort((a, b) => new Date(a.t) - new Date(b.t)): a stable
\* sort on the Date value; elements of equal Date keep their order.
SortByDate(s) == SortDates(s, {DateOf(s[i].t) : i \in DOMAIN s})

\* [...existing.messages, ...uniqueNewMessages].sort(...)
MergeMessages(messages, newMsgs) ==
    SortByDate(messages \o uniqueNewMessages(messages, newMsgs))

\* Ended archiver: merge when the loop stopped with a token, overwrite with
\* the sorted batch when it stopped with pageToken === null.
EndedMessages(messages, newMsgs, pageTok) ==
    IF pageTok # Null
    THEN SortByDate(messages \o uniqueNewMessages(messages, newMsgs))
    ELSE SortByDate(newMsgs)

IsSortedByDate(s) ==
    \A i, j \in DOMAIN s : i < j => DateOf(s[i].t) <= DateOf(s[j].t)

RECURSIVE SeqsUpTo(_, _)
SeqsUpTo(S, n) ==
    IF n = 0 THEN {<<>>}
    ELSE LET shorter == SeqsUpTo(S, n - 1)
         IN  shorter \cup {Append(s, x) : s \in {q \in shorter : Len(q) = n - 1}, x \in S}

\* The batches upstream can deliver, and the transcripts a file can hold: a
\* stored transcript was written by a sort, so it is sorted.
Batches == SeqsUpTo(Messages, MaxLen)
StoredTranscripts == {s \in Batches : IsSortedByDate(s)}

VARIABLES
    mExisting,   \* existing.messages as read from the transcript file
    mNew,        \* newMessages of the fetch loop
    mMerged,     \* existing.messages after the merge
    mAgain,      \* the result of merging the same batch once more
    mStage

VARIABLES
    videosJson,   \* docs/assets/data/videos.json
    dPhase,       \* idle | ran | reran | dated | detailed | aborted: what Discovery did last
    dFirst,       \* the videos.json the first of two back-to-back runs wrote
    dSiblings,    \* after a run in which a channel lookup failed: the
                  \* videoIds upstream held for the other channels
    dCollected,   \* allVideos of the last run as the channel loop left it,
                  \* before the sort
    dDetails      \* liveStreamingDetails per video as upstream reported
                  \* them to the last run

VARIABLES
    upLiveChatId,   \* upstream: activeLiveChatId per video (Null: no session)
    upChat,         \* upstream: the chat behind every session
    envForce,       \* process.env.FORCE_FETCH_VIDEO_IDS, as a set
    disallowIds,    \* DISSALLOW_FETCH_COMMENTS_VIDEOS
    commentsState,  \* docs/assets/data/comments_state.json
    commentFiles,   \* docs/assets/data/comments/{channelKey}/{videoId}.json
    pc,             \* idle | session | page | done | aborted
    mode,           \* which archiver runs: live | ended
    videos,         \* main(): the parsed registry
    state,          \* main(): the parsed cursor store
    processed,
    idx,            \* position of `video` in `videos`
    liveChatId,
    pageToken,
    pagesFetched,
    newMessages,
    maxPages,       \* MAX_PAGES_PER_RUN of the video being fetched
    reqPages,       \* chat-page requests issued per video in this run
    reqSession,     \* videos whose session was asked for in this run
    chain,          \* per video: a fetch interrupted by the budget, resumed
    visit           \* per video: how this run's visit of the video ended

mergeVars == <<mExisting, mNew, mMerged, mAgain, mStage>>
discVars == <<videosJson, dPhase, dFirst, dSiblings, dCollected, dDetails>>
archVars == <<upLiveChatId, upChat, envForce, disallowIds, commentsState, commentFiles,
              pc, mode, videos, state, processed, idx, liveChatId, pageToken,
              pagesFetched, newMessages, maxPages, reqPages, reqSession, chain,
              visit>>

vars == <<mergeVars, discVars, archVars>>
notMergeVars == <<discVars, archVars>>
notDiscVars == <<mergeVars, archVars>>


MergeInit ==
    /\ mExisting \in StoredTranscripts
    /\ mNew \in Batches
    /\ mMerged = <<>>
    /\ mAgain = <<>>
    /\ mStage = "input"

MergeParked ==
    /\ mExisting = <<>>
    /\ mNew = <<>>
    /\ mMerged = <<>>
    /\ mAgain = <<>>
    /\ mStage = "parked"

\* fetch_comments.js:248-261 on (existing.messages, newMessages).
LiveMerge ==
    /\ mStage = "input"
    /\ mMerged' = MergeMessages(mExisting, mNew)
    /\ mStage' = "merged"
    /\ UNCHANGED <<mExisting, mNew, mAgain>>
    /\ UNCHANGED notMergeVars

\* The next invocation fetches the same batch again and merges it into the
\* transcript the first merge wrote.
LiveMergeAgain ==
    /\ mStage = "merged"
    /\ mAgain' = MergeMessages(mMerged, mNew)
    /\ mStage' = "remerged"
    /\ UNCHANGED <<mExisting, mNew, mMerged>>
    /\ UNCHANGED notMergeVars

\* channels.js:263-279 on (existing.messages, newMessages, pageToken).
EndedMerge ==
    /\ mStage = "input"
    /\ \E pageTok \in {Null, 1} :
          /\ mMerged' = EndedMessages(mExisting, mNew, pageTok)
          /\ mStage' = IF pageTok = Null THEN "overwritten" ELSE "merged"
    /\ UNCHANGED <<mExisting, mNew, mAgain>>
    /\ UNCHANGED notMergeVars

MergeNext == LiveMerge \/ LiveMergeAgain \/ EndedMerge


(***************************************************************************)
(* Discovery (fetch_videos.js).  One run reads videos.json once, queries   *)
(* upstream channel by channel, and rewrites videos.json once at the end;  *)
(* it is one action.                                                       *)
(***************************************************************************)
\* Object.entries(CHANNELS) of config/channels.js, in insertion order.  The
\* channel objects carry channelId and channelName only: no freechatVideoId
\* and no excludeVideoIds.
ChannelKeys == <<"channelA", "channelB">>
CHANNELS == [c \in {"channelA", "channelB"} |-> [channelName |-> c]]
ChannelSet == {ChannelKeys[i] : i \in DOMAIN ChannelKeys}

VideoIds == {"V1", "V2"}

\* snippet.publishedAt of a video (fixed upstream), in the units of
\* Timestamps: V2 was published before V1.
PublishedAt == [v \in VideoIds |-> IF v = "V1" THEN 2 ELSE 0]

\* What videos.list reports as liveStreamingDetails of a video:
\* none (an upload or a short), scheduled (no actualStartTime yet),
\* started (actualStartTime, no actualEndTime), ended (actualEndTime).
LiveKinds == {"none", "scheduled", "started", "ended"}

\* Upstream lists at most MaxListed playlist items, over all channels, in
\* one Discovery run.
MaxListed == 2

Listings == SeqsUpTo(VideoIds, MaxListed)

Range(s) == {s[i] : i \in DOMAIN s}

\* The responses of one run: per channel the playlistItems listing; whether
\* the videos.list responses carry items; per video its details; whether
\* videos.list answers a repeated id once (dedup) or per occurrence.
Responses ==
    {r \in [listing : [ChannelSet -> Listings],
            detailItems : BOOLEAN,
            live : [VideoIds -> LiveKinds],
            dedup : BOOLEAN] :
        /\ Len(r.listing["channelA"]) + Len(r.listing["channelB"]) <= MaxListed
        /\ (\A c \in ChannelSet : r.listing[c] = <<>>) => r.detailItems
        /\ \A v \in VideoIds :
              (\A c \in ChannelSet : v \notin Range(r.listing[c])) => r.live[v] = "none"
        /\ r.dedup =>
              \E c \in ChannelSet :
                 Cardinality(Range(r.listing[c])) < Len(r.listing[c])}

\* The registry file: missing, unreadable, or a JSON array of entries.
MissingFile == [kind |-> "missing", entries |-> <<>>]
CorruptFile == [kind |-> "corrupt", entries |-> <<>>]
\* A write that leaves out the entries whose chat is fetched.
OkFileOfOpenEntries(entries) ==
    [kind |-> "ok", entries |-> SelectSeq(entries, LAMBDA e : ~e.chatFetched)]
OkFile(entries) == [kind |-> "ok", entries |-> entries]

\* The last entry of a videoId decides (Map.set overwrites).
LastIndexOf(entries, v) ==
    CHOOSE i \in DOMAIN entries :
        /\ entries[i].videoId = v
        /\ \A j \in DOMAIN entries : entries[j].videoId = v => j <= i

\* loadExistingChatFetchedMap(): videoId -> chatFetched of the file, the
\* empty map when the file is missing or unreadable.
loadExistingChatFetchedMap(file) ==
    IF file.kind # "ok" THEN << >>
    ELSE [v \in {file.entries[i].videoId : i \in DOMAIN file.entries} |->
             file.entries[LastIndexOf(file.entries, v)].chatFetched]

RECURSIVE DropRepeats(_)
DropRepeats(ids) ==
    IF ids = <<>> THEN <<>>
    ELSE LET front == DropRepeats(SubSeq(ids, 1, Len(ids) - 1))
             last == ids[Len(ids)]
         IN  IF last \in Range(front) THEN front ELSE Append(front, last)

\* json.items of videos.list for one chunk of ids.
DetailItems(chunk, resp) ==
    LET ids == IF resp.dedup THEN DropRepeats(chunk) ELSE chunk
    IN  [i \in DOMAIN ids |-> [id |-> ids[i], live |-> resp.live[ids[i]]]]

\* The forEach body of fetchLiveArchives for one item: the entry pushed, or
\* nothing for the free-chat video, an excluded id, or a non-broadcast.
ArchiveOf(item, channelKey) ==
    LET channel == CHANNELS[channelKey]
    IN  IF /\ "freechatVideoId" \in DOMAIN channel
           /\ item.id = channel.freechatVideoId
        THEN <<>>
        ELSE IF /\ "excludeVideoIds" \in DOMAIN channel
                /\ item.id \in channel.excludeVideoIds
        THEN <<>>
        ELSE IF item.live = "none" THEN <<>>
        ELSE << [videoId |-> item.id,
                 channelKey |-> channelKey,
                 publishedAt |-> PublishedAt[item.id],
                 status |-> IF item.live = "ended" THEN "ended" ELSE "live",
                 chatFetched |-> FALSE] >>

RECURSIVE ArchivesOf(_, _)
ArchivesOf(items, channelKey) ==
    IF items = <<>> THEN <<>>
    ELSE ArchiveOf(items[1], channelKey) \o ArchivesOf(Tail(items), channelKey)

\* fetchLiveArchives(videoIds, channelKey, channel): chunks of 50 ids; a
\* chunk whose response has no items is skipped.
RECURSIVE fetchLiveArchives(_, _, _)
fetchLiveArchives(videoIds, channelKey, resp) ==
    IF videoIds = <<>> THEN <<>>
    ELSE LET n == IF Len(videoIds) < 50 THEN Len(videoIds) ELSE 50
             chunk == SubSeq(videoIds, 1, n)
             rest == SubSeq(videoIds, n + 1, Len(videoIds))
             found == IF resp.detailItems
                      THEN ArchivesOf(DetailItems(chunk, resp), channelKey)
                      ELSE <<>>
         IN  found \o fetchLiveArchives(rest, channelKey, resp)

\* The for loop of main(): allVideos.push(...archives) channel by channel.
RECURSIVE CollectAll(_, _)
CollectAll(i, resp) ==
    IF i > Len(ChannelKeys) THEN <<>>
    ELSE fetchLiveArchives(resp.listing[ChannelKeys[i]], ChannelKeys[i], resp)
            \o CollectAll(i + 1, resp)

Reversed(s) == [i \in DOMAIN s |-> s[Len(s) + 1 - i]]

\* A sort that is ascending but turns entries of equal date around.
RECURSIVE SortPublishedUnstable(_, _)
SortPublishedUnstable(s, dates) ==
    IF dates = {} THEN <<>>
    ELSE LET d == SetMin(dates)
         IN  Reversed(SelectSeq(s, LAMBDA x : DateOf(x.publishedAt) = d))
                \o SortPublishedUnstable(s, dates \ {d})

SortByPublishedAtUnstable(s) ==
    SortPublishedUnstable(s, {DateOf(s[i].publishedAt) : i \in DOMAIN s})

RECURSIVE SortPublished(_, _)
SortPublished(s, dates) ==
    IF dates = {} THEN <<>>
    ELSE LET d == SetMin(dates)
         IN  SelectSeq(s, LAMBDA x : DateOf(x.publishedAt) = d)
                \o SortPublished(s, dates \ {d})

\* allVideos.sort((a, b) => new Date(a.publishedAt) - new Date(b.publishedAt))
SortByPublishedAt(s) == SortPublished(s, {DateOf(s[i].publishedAt) : i \in DOMAIN s})

\* The inheritance loop of main(): chatFetched of an entry becomes the
\* value of the existing file when the file knows the videoId.
InheritChatFetched(all, file) ==
    LET existingChatFetched == loadExistingChatFetchedMap(file)
    IN  [i \in DOMAIN all |->
            IF all[i].videoId \in DOMAIN existingChatFetched
            THEN [all[i] EXCEPT !.chatFetched = existingChatFetched[all[i].videoId]]
            ELSE all[i]]

\* A run that keeps what the file holds and adds what upstream lists.
allVideosAccumulating(file, resp) ==
    SortByPublishedAt(
        (IF file.kind = "ok" THEN file.entries ELSE <<>>) \o CollectAll(1, resp))

\* main(): the array written to videos.json.
allVideos(file, resp) ==
    InheritChatFetched(SortByPublishedAt(CollectAll(1, resp)), file)

\* No run has asked upstream for details.
NoDetails == [v \in VideoIds |-> "none"]

DiscInit ==
    /\ videosJson = MissingFile
    /\ dPhase = "idle"
    /\ dFirst = MissingFile
    /\ dSiblings = {}
    /\ dCollected = <<>>
    /\ dDetails = NoDetails

\* A run of fetch_videos.js in which every channel lookup succeeds.
Discovery ==
    /\ \E resp \in Responses :
          videosJson' = OkFile(allVideos(videosJson, resp))
    /\ dFirst' = MissingFile
    /\ dSiblings' = {}
    /\ dCollected' = <<>>
    /\ dDetails' = NoDetails
    /\ dPhase' = "ran"
    /\ UNCHANGED notDiscVars

\* Two runs, the second right after the first, upstream answering both the
\* same: the second reads the videos.json the first wrote (dFirst).
DiscoveryAgain ==
    /\ \E resp \in Responses :
          LET first == OkFile(allVideos(videosJson, resp)) IN
          /\ dFirst' = first
          /\ videosJson' = OkFile(allVideos(first, resp))
    /\ dPhase' = "reran"
    /\ dSiblings' = {}
    /\ dCollected' = <<>>
    /\ dDetails' = NoDetails
    /\ UNCHANGED notDiscVars

\* What upstream holds when the lookup of channel c fails: c lists nothing.
WithoutChannel(resp, c) == [resp EXCEPT !.listing[c] = <<>>]

\* getUploadsPlaylistId throws for a channel (no items): main() rejects,
\* the process exits with 1 and videos.json is not written.
DiscoveryAborts ==
    /\ dPhase # "aborted"
    /\ dPhase' = "aborted"
    /\ dFirst' = MissingFile
    /\ dSiblings' = {}
    /\ dCollected' = <<>>
    /\ dDetails' = NoDetails
    /\ UNCHANGED videosJson
    /\ UNCHANGED notDiscVars

\* The same run, seen with what upstream holds: the lookup of channel c
\* answers without items while the other channels list their videos.
LookupFails ==
    /\ \E resp \in Responses, c \in ChannelSet :
          LET others == CollectAll(1, WithoutChannel(resp, c))
          IN  dSiblings' = {others[i].videoId : i \in DOMAIN others}
    /\ dCollected' = <<>>
    /\ dDetails' = NoDetails
    /\ dPhase' = "aborted"
    /\ dFirst' = MissingFile
    /\ UNCHANGED videosJson
    /\ UNCHANGED notDiscVars

\* What the channel loop collects when upstream reports the publish times
\* `dates` for the videos.
Redated(all, dates) ==
    [i \in DOMAIN all |-> [all[i] EXCEPT !.publishedAt = dates[all[i].videoId]]]

\* The responses in which videos.list answers every id once and no video
\* is a broadcast still to start.
BroadcastResponses ==
    {r \in Responses :
        /\ r.detailItems
        /\ ~r.dedup
        /\ \A v \in VideoIds : r.live[v] \in {"none", "started", "ended"}}

\* A run of fetch_videos.js, seen with what the channel loop collected;
\* upstream reports any publish times, equal ones among them.
DiscoveryOfDates ==
    /\ \E resp \in BroadcastResponses, dates \in [VideoIds -> Timestamps] :
          LET collected == Redated(CollectAll(1, resp), dates)
          IN  /\ dCollected' = collected
              /\ videosJson' =
                    OkFile(InheritChatFetched(SortByPublishedAt(collected), videosJson))
    /\ dPhase' = "dated"
    /\ dDetails' = NoDetails
    /\ dFirst' = MissingFile
    /\ dSiblings' = {}
    /\ UNCHANGED notDiscVars

\* A run of fetch_videos.js, seen with the liveStreamingDetails upstream
\* reported for the videos.
DiscoveryOfDetails ==
    /\ \E resp \in Responses :
          /\ videosJson' = OkFile(allVideos(videosJson, resp))
          /\ dDetails' = resp.live
    /\ dPhase' = "detailed"
    /\ dCollected' = <<>>
    /\ dFirst' = MissingFile
    /\ dSiblings' = {}
    /\ UNCHANGED notDiscVars

\* The archiver's effect on the registry between Discovery runs: it sets
\* chatFetched of an entry to true and rewrites the file
\* (fetch_comments.js:161, 279, 292-296).
ArchiverMarksFetched ==
    /\ videosJson.kind = "ok"
    /\ \E i \in DOMAIN videosJson.entries :
          /\ ~videosJson.entries[i].chatFetched
          /\ videosJson' = OkFile([videosJson.entries EXCEPT ![i].chatFetched = TRUE])
    /\ dPhase' = "idle"
    /\ dFirst' = MissingFile
    /\ dSiblings' = {}
    /\ dCollected' = <<>>
    /\ dDetails' = NoDetails
    /\ UNCHANGED notDiscVars

\* videos.json becomes unreadable (a torn write, a bad merge of the data
\* branch): the case loadExistingChatFetchedMap catches.
RegistryDamaged ==
    /\ videosJson.kind = "ok"
    /\ videosJson' = CorruptFile
    /\ dPhase' = "idle"
    /\ dFirst' = MissingFile
    /\ dSiblings' = {}
    /\ dCollected' = <<>>
    /\ dDetails' = NoDetails
    /\ UNCHANGED notDiscVars

DiscParked ==
    /\ videosJson = MissingFile
    /\ dPhase = "parked"
    /\ dFirst = MissingFile
    /\ dSiblings = {}
    /\ dCollected = <<>>
    /\ dDetails = NoDetails

DiscNext ==
    \/ Discovery
    \/ DiscoveryAgain
    \/ DiscoveryAborts
    \/ ArchiverMarksFetched
    \/ RegistryDamaged

\* Discovery runs over every assignment of publish times.
OrderingNext == DiscoveryOfDates

\* Discovery runs with upstream's details on record.
StatusNext ==
    \/ DiscoveryOfDetails
    \/ ArchiverMarksFetched

\* Discovery runs in which channel lookups fail.
IsolationNext ==
    \/ Discovery
    \/ LookupFails
    \/ ArchiverMarksFetched

(***************************************************************************)
(* The chat archivers.  fetch_comments.js archives broadcasts that are     *)
(* live, the script in the second half of config/channels.js archives      *)
(* broadcasts that have ended.  Both read videos.json and                  *)
(* comments_state.json, write one transcript file per video as soon as a   *)
(* video is done, and write videos.json and comments_state.json once, at   *)
(* the end of the run.  One step of the model is what a run does between   *)
(* two upstream calls (await fetch).                                       *)
(***************************************************************************)
\* MAX_VIDEOS_PER_RUN of fetch_comments.js and of the ended archiver.
LIVE_MAX_VIDEOS_PER_RUN == 5
ENDED_MAX_VIDEOS_PER_RUN == 3
\* MAX_PAGES_PER_RUN: fetch_comments.js on a first run and on later runs,
\* and the ended archiver.
FIRST_RUN_MAX_PAGES == 1000
LATER_RUN_MAX_PAGES == 10
ENDED_MAX_PAGES == 1000

MAX_VIDEOS_PER_RUN(md) ==
    IF md = "live" THEN LIVE_MAX_VIDEOS_PER_RUN ELSE ENDED_MAX_VIDEOS_PER_RUN

\* The videos of the archiver's registries, oldest first.
VideoNames == <<"V2", "V1", "V3", "V4", "V5", "V6">>
MaxVideos == 2
MaxCandidates == 4
ArchiveIds == {VideoNames[i] : i \in 1..MaxCandidates}

\* An entry as fetchLiveArchives creates it (chatFetched false).
RegistryEntry(i, status) ==
    [videoId |-> VideoNames[i],
     channelKey |-> ChannelKeys[(i % 2) + 1],
     publishedAt |-> 2 * (i - 1),
     status |-> status,
     chatFetched |-> FALSE]

\* Every registry over the first n videos: each video absent, live or ended;
\* entries in publishedAt order, one per videoId (the registry the archiver
\* is handed is assumed to be well formed).
RECURSIVE RegistriesOver(_)
RegistriesOver(n) ==
    IF n = 0 THEN {<<>>}
    ELSE LET shorter == RegistriesOver(n - 1)
         IN  shorter \cup {Append(r, RegistryEntry(n, s)) :
                              r \in shorter, s \in {"live", "ended"}}

\* The first n videos, all with one status.
UniformRegistry(n, status) == [i \in 1..n |-> RegistryEntry(i, status)]

(***************************************************************************)
(* Upstream liveChat/messages.  A chat is a chain of pages; the token a    *)
(* page carries is the number of that page, '' asks for the first page.    *)
(*   kind "pages"   : the pages are listed; `more` says whether the last   *)
(*                     page carries a token (the page after it is empty)   *)
(*   kind "long"    : n pages of one message each; with `echo` the last    *)
(*                     page repeats the message of the first               *)
(*   kind "endless" : every request returns a message and a token          *)
(***************************************************************************)
MsgA == [t |-> 2, m |-> 0]
MsgB == [t |-> 0, m |-> 1]
MsgC == [t |-> 1, m |-> 0]

PagesChat(pages, more) ==
    [kind |-> "pages", pages |-> pages, more |-> more, n |-> Len(pages), echo |-> FALSE]
LongChat(n, echo) ==
    [kind |-> "long", pages |-> <<>>, more |-> FALSE, n |-> n, echo |-> echo]
EndlessChat ==
    [kind |-> "endless", pages |-> <<>>, more |-> TRUE, n |-> 0, echo |-> FALSE]

OnePageChat == PagesChat(<< <<MsgA>> >>, FALSE)

ShortChats ==
    { PagesChat(<<>>, FALSE),
      OnePageChat,
      PagesChat(<< <<MsgA, MsgB>>, <<MsgC>> >>, FALSE),
      PagesChat(<< <<MsgA, MsgB>>, <<MsgB, MsgC>> >>, FALSE),
      PagesChat(<< <<MsgA>> >>, TRUE),
      PagesChat(<< <<MsgA>>, <<>>, <<MsgC>> >>, FALSE) }

\* Finite chats, shorter and longer than the page budget of the ended
\* archiver.
DrainChats ==
    { LongChat(LATER_RUN_MAX_PAGES + 2, FALSE),
      LongChat(ENDED_MAX_PAGES + 2, FALSE) }

\* The chats of the runs after a lost cursor store: read in one run, or
\* over several runs because of the page budgets.
ColdStartChats ==
    { PagesChat(<< <<MsgA, MsgB>>, <<MsgB, MsgC>> >>, FALSE),
      PagesChat(<< <<MsgA>>, <<>>, <<MsgC>> >>, FALSE),
      LongChat(LATER_RUN_MAX_PAGES + 2, FALSE),
      LongChat(FIRST_RUN_MAX_PAGES + 2, TRUE) }

\* The chats of the runs over damaged files.
DamageChats ==
    { OnePageChat,
      PagesChat(<< <<MsgA, MsgB>>, <<MsgC>> >>, FALSE) }

\* Chats longer than a page budget.
QuotaChats ==
    { LongChat(LATER_RUN_MAX_PAGES + 2, FALSE),
      LongChat(FIRST_RUN_MAX_PAGES + 2, FALSE),
      LongChat(FIRST_RUN_MAX_PAGES + 2, TRUE),
      EndlessChat }

\* The message of page i of a long chat.
LongMsg(chat, i) ==
    IF chat.echo /\ i = chat.n THEN [t |-> 1, m |-> 1] ELSE [t |-> i % 3, m |-> i]

\* The response to a request with page token tok: json.items and
\* json.nextPageToken (Null when the response carries none).
Page(chat, tok) ==
    LET i == tok + 1
    IN  IF chat.kind = "endless"
        THEN [items |-> <<LongMsg(chat, 1)>>, next |-> 1]
        ELSE IF i > chat.n
        THEN [items |-> <<>>, next |-> Null]
        ELSE [items |-> IF chat.kind = "long" THEN <<LongMsg(chat, i)>>
                        ELSE chat.pages[i],
              next |-> IF i < chat.n \/ chat.more THEN i ELSE Null]

\* The messages a run with budget to spare reads, starting with page `from`:
\* every page up to the last, or up to the first page without items.
RECURSIVE ListedFrom(_, _)
ListedFrom(chat, from) ==
    IF from > chat.n \/ chat.pages[from] = <<>> THEN <<>>
    ELSE chat.pages[from] \o ListedFrom(chat, from + 1)

PagesFrom(chat, from) ==
    IF chat.kind = "long"
    THEN [i \in 1..(chat.n + 1 - from) |-> LongMsg(chat, from + i - 1)]
    ELSE ListedFrom(chat, from)

\* activeLiveChatId of a video: a handle, or Null once the session is gone.
HandleOf(v) == CHOOSE i \in DOMAIN VideoNames : VideoNames[i] = v

(***************************************************************************)
(* Files of the archiver.                                                  *)
(***************************************************************************)
\* An entry of comments_state.json; a video without entry reads as {}.
Cursor(handle, token) ==
    [liveChatId |-> handle, nextPageToken |-> token]
NoCursor == Cursor(Undefined, Undefined)
\* A cursor that records nothing.
UnresolvedCursor == Cursor(Undefined, Undefined)
NullCursor == Cursor(Null, Null)
NoCursors == [v \in ArchiveIds |-> NoCursor]

MissingState == [kind |-> "missing", entries |-> NoCursors]
CorruptState == [kind |-> "corrupt", entries |-> NoCursors]
\* A write that records every video it holds no cursor for as closed.
OkStateClosing(entries) ==
    [kind |-> "ok",
     entries |-> [v \in DOMAIN entries |->
                     IF entries[v] = NoCursor THEN NullCursor ELSE entries[v]]]
OkState(entries) == [kind |-> "ok", entries |-> entries]

MissingTranscript == [kind |-> "missing", messages |-> <<>>]
CorruptTranscript == [kind |-> "corrupt", messages |-> <<>>]
OkTranscript(messages) == [kind |-> "ok", messages |-> messages]

\* `x || ''`, `!x`: undefined, null and '' are falsy, page numbers are not.
Truthy(x) == x \notin {Undefined, Null, EmptyToken}

\* The values FORCE_FETCH_VIDEO_IDS takes, and the lists the disallow file
\* holds.
ForceChoices == {{}, {VideoNames[2]}}
DisallowChoices == {{}, {VideoNames[1]}}

NoRequests == [v \in ArchiveIds |-> 0]
NoChain == [phase |-> "none", base |-> <<>>]
NoChains == [v \in ArchiveIds |-> NoChain]

\* What a run remembers of its visit of a video: why the visit ended
\* ("nosession": no session handle; "exhausted": the loop left with
\* pageToken null; "budget": it left with a token), the token it ended
\* with, the messages it had fetched, the pages that had been answered
\* with items, and the transcript file it found.
Visit(stop, tok, msgs, fetched, before) ==
    [stop |-> stop, tok |-> tok, msgs |-> msgs, fetched |-> fetched, before |-> before]
NoVisit == Visit("none", Null, <<>>, 0, MissingTranscript)
NoVisits == [v \in ArchiveIds |-> NoVisit]

\* The loop variables of main() when no run is in progress.
Cleared ==
    /\ videos' = <<>>
    /\ state' = NoCursors
    /\ processed' = 0
    /\ idx' = 0
    /\ liveChatId' = Null
    /\ pageToken' = Null
    /\ pagesFetched' = 0
    /\ newMessages' = <<>>
    /\ maxPages' = 0

\* A selection that does not look at chatFetched.
IsCandidateRefetching(md, video, proc, force) ==
    IF md = "live"
    THEN /\ video.videoId \notin disallowIds
         /\ ~(\/ video.status # "live"
              \/ proc >= LIVE_MAX_VIDEOS_PER_RUN)
    ELSE LET isForceFetch == video.videoId \in force
         IN  ~(\/ (~isForceFetch /\ video.status # "ended")
               \/ proc >= ENDED_MAX_VIDEOS_PER_RUN)

\* The negation of the `continue` conditions at the head of the loop body.
IsCandidate(md, video, proc, force) ==
    IF md = "live"
    THEN /\ video.videoId \notin disallowIds
         /\ ~(\/ video.status # "live"
              \/ video.chatFetched
              \/ proc >= LIVE_MAX_VIDEOS_PER_RUN)
    ELSE LET isForceFetch == video.videoId \in force
         IN  ~(\/ (~isForceFetch /\ video.status # "ended")
               \/ (~isForceFetch /\ video.chatFetched)
               \/ proc >= ENDED_MAX_VIDEOS_PER_RUN)

\* The loop from entry i up to its next upstream call: entries that are no
\* candidates are skipped; fetch_comments.js takes a stored liveChatId
\* instead of asking upstream, and a stored null closes the video on the
\* spot.  The result says where the run waits next: for the session
\* ("session"), for a chat page ("page"), or not at all ("end").
RECURSIVE Advance(_, _, _, _, _, _)
Advance(md, vs, st, proc, i, force) ==
    IF i > Len(vs)
    THEN [videos |-> vs, state |-> st, idx |-> i, pc |-> "end"]
    ELSE IF ~IsCandidate(md, vs[i], proc, force)
    THEN Advance(md, vs, st, proc, i + 1, force)
    ELSE IF md = "live" /\ st[vs[i].videoId].liveChatId # Undefined
    THEN IF ~Truthy(st[vs[i].videoId].liveChatId)
         THEN Advance(md, [vs EXCEPT ![i].chatFetched = TRUE],
                      [st EXCEPT ![vs[i].videoId] = NullCursor], proc, i + 1, force)
         ELSE [videos |-> vs, state |-> st, idx |-> i, pc |-> "page"]
    ELSE [videos |-> vs, state |-> st, idx |-> i, pc |-> "session"]

\* A first-run test that looks at the transcript file only.
isFirstRunByFile(v, st, files) ==
    files[v].kind # "ok" \/ Len(files[v].messages) = 0

\* isFirstRun of fetch_comments.js: no transcript file, or one without
\* messages (an unreadable one counts as empty), and no stored page token.
isFirstRun(v, st, files) ==
    /\ files[v].kind # "ok" \/ Len(files[v].messages) = 0
    /\ ~Truthy(st[v].nextPageToken)

MAX_PAGES_PER_RUN(md, v, st, files) ==
    IF md = "live"
    THEN IF isFirstRun(v, st, files) THEN FIRST_RUN_MAX_PAGES ELSE LATER_RUN_MAX_PAGES
    ELSE ENDED_MAX_PAGES

\* The token of the first request: the stored token in fetch_comments.js,
\* always '' in the ended archiver (vState.nextPageToken = '' before).
FirstToken(md, v, st) ==
    IF md = "live" /\ Truthy(st[v].nextPageToken) THEN st[v].nextPageToken ELSE EmptyToken

\* A loop that goes on for as long as upstream names a next page.
LoopContinuesWhileToken(fetched, max) == TRUE

\* while (pagesFetched < MAX_PAGES_PER_RUN)
LoopContinuesInclusive(fetched, max) == fetched <= max
LoopContinues(fetched, max) == fetched < max

\* Entering the fetch loop for video v with session `handle`: the loop
\* variables are set and the first page is requested.
BeginFetch(md, v, handle, st, files, basePages) ==
    /\ liveChatId' = handle
    /\ maxPages' = MAX_PAGES_PER_RUN(md, v, st, files)
    /\ pageToken' = FirstToken(md, v, st)
    /\ pagesFetched' = 0
    /\ newMessages' = <<>>
    /\ reqPages' = [basePages EXCEPT ![v] = @ + 1]

\* The run goes on from the position `adv`: it waits for the next upstream
\* call, or the loop is over and videos.json and comments_state.json are
\* written.
Goto(md, adv, proc, files, basePages, baseSession) ==
    IF adv.pc = "end"
    THEN /\ pc' = "done"
         /\ videosJson' = OkFile(adv.videos)
         /\ commentsState' = OkState(adv.state)
         /\ Cleared
         /\ reqPages' = basePages
         /\ reqSession' = baseSession
    ELSE LET v == adv.videos[adv.idx].videoId
         IN  /\ pc' = adv.pc
             /\ videos' = adv.videos
             /\ state' = adv.state
             /\ processed' = proc
             /\ idx' = adv.idx
             /\ UNCHANGED <<videosJson, commentsState>>
             /\ IF adv.pc = "page"
                THEN /\ BeginFetch(md, v, adv.state[v].liveChatId, adv.state, files, basePages)
                     /\ reqSession' = baseSession
                ELSE /\ liveChatId' = Null
                     /\ maxPages' = 0
                     /\ pageToken' = Null
                     /\ pagesFetched' = 0
                     /\ newMessages' = <<>>
                     /\ reqPages' = basePages
                     /\ reqSession' = baseSession \cup {v}

\* main() up to its first upstream call: videos.json and
\* comments_state.json are read (an unreadable or missing state file reads
\* as {}), processed = 0, and the loop starts.
StartRun(md, force) ==
    /\ pc \in {"idle", "done", "aborted"}
    /\ videosJson.kind = "ok"
    /\ LET st == IF commentsState.kind = "ok" THEN commentsState.entries ELSE NoCursors
       IN  Goto(md, Advance(md, videosJson.entries, st, 0, 1, force), 0, commentFiles,
                NoRequests, {})
    /\ visit' = NoVisits
    /\ UNCHANGED <<commentFiles, chain, upLiveChatId, upChat, disallowIds>>
    /\ UNCHANGED <<dPhase, dFirst, dSiblings, dCollected, dDetails>>
    /\ UNCHANGED mergeVars

\* getLiveChatId answers.  Without a session the video is closed
\* (chatFetched = true, cursor {null, null}) and the loop continues with
\* `processed` as it was; with one, the fetch loop starts.
SessionReply(md) ==
    /\ pc = "session"
    /\ LET v == videos[idx].videoId
           reply == upLiveChatId[v]
       IN  IF ~Truthy(reply)
           THEN /\ Goto(md,
                        Advance(md, [videos EXCEPT ![idx].chatFetched = TRUE],
                                [state EXCEPT ![v] = NullCursor], processed, idx + 1,
                                envForce),
                        processed, commentFiles, reqPages, reqSession)
                /\ visit' = [visit EXCEPT
                                ![v] = Visit("nosession", Null, <<>>, 0, commentFiles[v])]
           ELSE /\ pc' = "page"
                /\ BeginFetch(md, v, reply, state, commentFiles, reqPages)
                /\ UNCHANGED <<videos, state, processed, idx, reqSession,
                               videosJson, commentsState, visit>>
    /\ UNCHANGED <<mode, commentFiles, chain, upLiveChatId, upChat, envForce, disallowIds>>
    /\ UNCHANGED <<dPhase, dFirst, dSiblings, dCollected, dDetails>>
    /\ UNCHANGED mergeVars

\* What a visit that ends leaves in `chain`: a visit that began with the
\* first page and stopped on the budget opens a chain and remembers the
\* transcript it began with; a visit that began with the stored token keeps
\* the chain open when it stops on the budget again and closes it
\* ("resumed") when upstream has no further page.
ChainAfter(md, v, tok, existingMsgs) ==
    LET fromStoredToken == md = "live" /\ Truthy(state[v].nextPageToken)
    IN  IF tok # Null
        THEN IF ~fromStoredToken
             THEN [phase |-> "interrupted", base |-> existingMsgs]
             ELSE IF chain[v].phase = "interrupted" THEN chain[v] ELSE NoChain
        ELSE IF fromStoredToken /\ chain[v].phase = "interrupted"
             THEN [phase |-> "resumed", base |-> chain[v].base]
             ELSE NoChain

\* A token update that resets the token to '' in both archivers.
nextPageTokenResetting(md, tok, status) ==
    IF tok = Null THEN EmptyToken ELSE tok

\* A token update that stores what the loop ended with.
nextPageTokenAsLeft(md, tok, status) == tok

\* vState.nextPageToken after the loop: fetch_comments.js resets a null
\* token to '' while the video is live; otherwise the token the loop ended
\* with (null or the token of the last page) is stored.
nextPageTokenAfter(md, tok, status) ==
    IF md = "live" /\ tok = Null /\ status = "live" THEN EmptyToken ELSE tok

\* A completion test that does not look at the token.
chatFetchedAlways(md, tok, status, isForceFetch) == TRUE

\* Whether video.chatFetched is set to true after the loop: the token is
\* null and, in fetch_comments.js, the video is not live; in the ended
\* archiver, the video is not force-fetched.
chatFetchedAfter(md, tok, status, isForceFetch) ==
    IF md = "live"
    THEN tok = Null /\ status # "live"
    ELSE tok = Null /\ ~isForceFetch

\* After the fetch loop: the transcript is merged (or, in the ended
\* archiver after the last page, replaced) and written, the cursor and
\* chatFetched are set, processed is incremented and the loop continues.
FinishVideo(md, v, tok, msgs, fetched) ==
    LET file == commentFiles[v]
        existingMsgs == IF file.kind = "ok" THEN file.messages ELSE <<>>
        written == IF md = "live"
                   THEN MergeMessages(existingMsgs, msgs)
                   ELSE EndedMessages(existingMsgs, msgs, tok)
        files == [commentFiles EXCEPT ![v] = OkTranscript(written)]
        isForceFetch == v \in envForce
        nextPageToken == nextPageTokenAfter(md, tok, videos[idx].status)
        chatFetched == chatFetchedAfter(md, tok, videos[idx].status, isForceFetch)
        vs == IF chatFetched THEN [videos EXCEPT ![idx].chatFetched = TRUE] ELSE videos
        st == [state EXCEPT ![v] = Cursor(liveChatId, nextPageToken)]
    IN  /\ commentFiles' = files
        /\ chain' = [chain EXCEPT ![v] = ChainAfter(md, v, tok, existingMsgs)]
        /\ visit' = [visit EXCEPT
                        ![v] = Visit(IF tok = Null THEN "exhausted" ELSE "budget",
                                     tok, msgs, fetched, file)]
        /\ Goto(md, Advance(md, vs, st, processed + 1, idx + 1, envForce), processed + 1,
                files, reqPages, reqSession)

\* A loop that asks for the page after the one upstream named.
pageTokenSkipping(json) ==
    IF json.items # <<>> /\ Truthy(json.next) THEN json.next + 1 ELSE Null

\* A loop that takes the token of a response without items.
pageTokenOfAnyResponse(json) ==
    IF Truthy(json.next) THEN json.next ELSE Null

\* pageToken after a response: null when it has no items (break), else
\* json.nextPageToken || null.
pageTokenAfterResponse(json) ==
    IF json.items # <<>> /\ Truthy(json.next) THEN json.next ELSE Null

\* liveChat/messages answers.  No items: the loop breaks with pageToken
\* null.  Otherwise the items are pushed, pagesFetched is incremented and
\* the loop goes on while there is a token and budget left.
PageReply(md) ==
    /\ pc = "page"
    /\ LET v == videos[idx].videoId
           json == Page(upChat, pageToken)
           noItems == json.items = <<>>
           msgs == newMessages \o json.items
           fetched == IF noItems THEN pagesFetched ELSE pagesFetched + 1
           tok == pageTokenAfterResponse(json)
       IN  IF tok # Null /\ LoopContinues(fetched, maxPages)
           THEN /\ newMessages' = msgs
                /\ pagesFetched' = fetched
                /\ pageToken' = tok
                /\ reqPages' = [reqPages EXCEPT ![v] = @ + 1]
                /\ UNCHANGED <<pc, videos, state, processed, idx, liveChatId, maxPages,
                               reqSession, videosJson, commentsState, commentFiles,
                               chain, visit>>
           ELSE FinishVideo(md, v, tok, msgs, fetched)
    /\ UNCHANGED <<mode, upLiveChatId, upChat, envForce, disallowIds>>
    /\ UNCHANGED <<dPhase, dFirst, dSiblings, dCollected, dDetails>>
    /\ UNCHANGED mergeVars

\* fetch_comments.js
StartLive ==
    /\ mode' = "live"
    /\ UNCHANGED envForce
    /\ StartRun("live", envForce)

LiveSessionReply ==
    /\ mode = "live"
    /\ SessionReply("live")

LivePageReply ==
    /\ mode = "live"
    /\ PageReply("live")

\* the ended archiver; FORCE_FETCH_VIDEO_IDS is read from the environment
\* of the process
StartEnded ==
    /\ mode' = "ended"
    /\ \E ids \in ForceChoices :
          /\ envForce' = ids
          /\ StartRun("ended", ids)

EndedSessionReply ==
    /\ mode = "ended"
    /\ SessionReply("ended")

EndedPageReply ==
    /\ mode = "ended"
    /\ PageReply("ended")

\* An upstream call rejects (network error, a body that is no JSON):
\* main() rejects and the process exits with 1.  The transcripts written
\* so far stay; videos.json and comments_state.json are not written.
RunAborts ==
    /\ pc \in {"session", "page"}
    /\ pc' = "aborted"
    /\ Cleared
    /\ chain' = NoChains
    /\ UNCHANGED <<mode, reqPages, reqSession, videosJson, commentsState, commentFiles,
                   upLiveChatId, upChat, envForce, disallowIds, visit>>
    /\ UNCHANGED <<dPhase, dFirst, dSiblings, dCollected, dDetails>>
    /\ UNCHANGED mergeVars

\* Upstream drops the chat session of a video of the registry (the
\* broadcast is over and the chat is closed).  A run reads the session of
\* a video once, so it is enough to let sessions go between runs.
SessionExpires ==
    /\ pc \in {"idle", "done", "aborted"}
    /\ \E i \in DOMAIN videosJson.entries :
          LET v == videosJson.entries[i].videoId
          IN  /\ upLiveChatId[v] # Null
              /\ upLiveChatId' = [upLiveChatId EXCEPT ![v] = Null]
    /\ UNCHANGED <<pc, mode, videos, state, processed, idx, liveChatId, pageToken,
                   pagesFetched, newMessages, maxPages, reqPages, reqSession, chain,
                   visit, videosJson, commentsState, commentFiles, upChat, envForce,
                   disallowIds>>
    /\ UNCHANGED <<dPhase, dFirst, dSiblings, dCollected, dDetails>>
    /\ UNCHANGED mergeVars

\* Between two runs upstream comes to answer liveChat/messages with
\* another chain of pages (messages were posted or removed, or the API
\* serves less of the history than before).
UpstreamChatChanges ==
    /\ pc \in {"idle", "done", "aborted"}
    /\ upChat' \in ShortChats \ {upChat}
    /\ UNCHANGED <<pc, mode, videos, state, processed, idx, liveChatId, pageToken,
                   pagesFetched, newMessages, maxPages, reqPages, reqSession, chain,
                   visit, videosJson, commentsState, commentFiles, upLiveChatId,
                   envForce, disallowIds>>
    /\ UNCHANGED <<dPhase, dFirst, dSiblings, dCollected, dDetails>>
    /\ UNCHANGED mergeVars

\* A main() that takes a missing or unreadable videos.json for an empty
\* registry and goes on to its final writes.
StartCreatesRegistry ==
    /\ pc \in {"idle", "done", "aborted"}
    /\ videosJson.kind # "ok"
    /\ mode' \in {"live", "ended"}
    /\ pc' = "done"
    /\ Cleared
    /\ videosJson' = OkFile(<<>>)
    /\ commentsState' = OkState(NoCursors)
    /\ reqPages' = NoRequests
    /\ reqSession' = {}
    /\ visit' = NoVisits
    /\ chain' = NoChains
    /\ UNCHANGED <<commentFiles, upLiveChatId, upChat, envForce, disallowIds>>
    /\ UNCHANGED <<dPhase, dFirst, dSiblings, dCollected, dDetails>>
    /\ UNCHANGED mergeVars

\* main() of either archiver with a videos.json that is missing (the throw
\* at fetch_comments.js:93-95) or no JSON (JSON.parse at line 97 throws):
\* main() rejects before the loop and the process exits with 1.
StartFails ==
    /\ pc \in {"idle", "done", "aborted"}
    /\ videosJson.kind # "ok"
    /\ mode' \in {"live", "ended"}
    /\ pc' = "aborted"
    /\ Cleared
    /\ reqPages' = NoRequests
    /\ reqSession' = {}
    /\ visit' = NoVisits
    /\ chain' = NoChains
    /\ UNCHANGED <<videosJson, commentsState, commentFiles, upLiveChatId, upChat,
                   envForce, disallowIds>>
    /\ UNCHANGED <<dPhase, dFirst, dSiblings, dCollected, dDetails>>
    /\ UNCHANGED mergeVars

\* Between two runs a file of the data branch becomes unreadable (a torn
\* write, a bad merge): videos.json, comments_state.json, or a transcript.
RegistryCorrupted ==
    /\ pc \in {"idle", "done", "aborted"}
    /\ videosJson.kind = "ok"
    /\ videosJson' = CorruptFile
    /\ UNCHANGED <<pc, mode, videos, state, processed, idx, liveChatId, pageToken,
                   pagesFetched, newMessages, maxPages, reqPages, reqSession, chain,
                   visit, commentsState, commentFiles, upLiveChatId, upChat, envForce,
                   disallowIds>>
    /\ UNCHANGED <<dPhase, dFirst, dSiblings, dCollected, dDetails>>
    /\ UNCHANGED mergeVars

\* Between two runs videos.json goes away (a checkout of the data branch
\* from before the first Discovery run).
RegistryRemoved ==
    /\ pc \in {"idle", "done", "aborted"}
    /\ videosJson.kind = "ok"
    /\ videosJson' = MissingFile
    /\ UNCHANGED <<pc, mode, videos, state, processed, idx, liveChatId, pageToken,
                   pagesFetched, newMessages, maxPages, reqPages, reqSession, chain,
                   visit, commentsState, commentFiles, upLiveChatId, upChat, envForce,
                   disallowIds>>
    /\ UNCHANGED <<dPhase, dFirst, dSiblings, dCollected, dDetails>>
    /\ UNCHANGED mergeVars

CursorStoreCorrupted ==
    /\ pc \in {"idle", "done", "aborted"}
    /\ commentsState.kind = "ok"
    /\ commentsState' = CorruptState
    /\ UNCHANGED <<pc, mode, videos, state, processed, idx, liveChatId, pageToken,
                   pagesFetched, newMessages, maxPages, reqPages, reqSession, chain,
                   visit, videosJson, commentFiles, upLiveChatId, upChat, envForce,
                   disallowIds>>
    /\ UNCHANGED <<dPhase, dFirst, dSiblings, dCollected, dDetails>>
    /\ UNCHANGED mergeVars

\* comments_state.json is lost between two runs (deleted, or unreadable and
\* so read as {}); videos.json and the transcripts stay.
CursorStoreLost ==
    /\ pc \in {"idle", "done", "aborted"}
    /\ commentsState.kind = "ok"
    /\ commentsState' = MissingState
    /\ UNCHANGED <<pc, mode, videos, state, processed, idx, liveChatId, pageToken,
                   pagesFetched, newMessages, maxPages, reqPages, reqSession, chain,
                   visit, videosJson, commentFiles, upLiveChatId, upChat, envForce,
                   disallowIds>>
    /\ UNCHANGED <<dPhase, dFirst, dSiblings, dCollected, dDetails>>
    /\ UNCHANGED mergeVars

TranscriptCorrupted ==
    /\ pc \in {"idle", "done", "aborted"}
    /\ \E v \in ArchiveIds :
          /\ commentFiles[v].kind = "ok"
          /\ commentFiles' = [commentFiles EXCEPT ![v] = CorruptTranscript]
    /\ UNCHANGED <<pc, mode, videos, state, processed, idx, liveChatId, pageToken,
                   pagesFetched, newMessages, maxPages, reqPages, reqSession, chain,
                   visit, videosJson, commentsState, upLiveChatId, upChat, envForce,
                   disallowIds>>
    /\ UNCHANGED <<dPhase, dFirst, dSiblings, dCollected, dDetails>>
    /\ UNCHANGED mergeVars

ArchiverNext ==
    \/ StartLive
    \/ StartEnded
    \/ LiveSessionReply
    \/ EndedSessionReply
    \/ LivePageReply
    \/ EndedPageReply
    \/ RunAborts
    \/ SessionExpires

\* The ended archiver alone: run after run, every upstream call answered.
DrainNext ==
    \/ StartEnded
    \/ EndedSessionReply
    \/ EndedPageReply

\* The archiver steps, with a cursor store that is lost between runs.
ColdStartNext ==
    \/ StartLive
    \/ StartEnded
    \/ LiveSessionReply
    \/ EndedSessionReply
    \/ LivePageReply
    \/ EndedPageReply
    \/ RunAborts
    \/ SessionExpires
    \/ CursorStoreLost

\* The archiver steps, with files that become unreadable between runs.
DamageNext ==
    \/ StartLive
    \/ StartEnded
    \/ StartFails
    \/ LiveSessionReply
    \/ EndedSessionReply
    \/ LivePageReply
    \/ EndedPageReply
    \/ RunAborts
    \/ RegistryCorrupted
    \/ CursorStoreCorrupted
    \/ TranscriptCorrupted

\* The archiver steps, videos.json going away between runs.
NoRegistryNext ==
    \/ StartLive
    \/ StartEnded
    \/ StartFails
    \/ LiveSessionReply
    \/ EndedSessionReply
    \/ LivePageReply
    \/ EndedPageReply
    \/ RegistryRemoved

\* The steps of fetch_comments.js, a transcript becoming unreadable or the
\* cursor store going away between runs.
PageBudgetNext ==
    \/ StartLive
    \/ LiveSessionReply
    \/ LivePageReply
    \/ TranscriptCorrupted
    \/ CursorStoreLost

\* The steps of archiver runs in which every upstream call returns.
ReturningNext ==
    \/ StartLive
    \/ StartEnded
    \/ LiveSessionReply
    \/ EndedSessionReply
    \/ LivePageReply
    \/ EndedPageReply

\* Between two runs the chat upstream serves grows beyond the page budget
\* of a run.
UpstreamChatGrows ==
    /\ pc \in {"idle", "done", "aborted"}
    /\ upChat = OnePageChat
    /\ upChat' = LongChat(ENDED_MAX_PAGES + 2, FALSE)
    /\ UNCHANGED <<pc, mode, videos, state, processed, idx, liveChatId, pageToken,
                   pagesFetched, newMessages, maxPages, reqPages, reqSession, chain,
                   visit, videosJson, commentsState, commentFiles, upLiveChatId,
                   envForce, disallowIds>>
    /\ UNCHANGED <<dPhase, dFirst, dSiblings, dCollected, dDetails>>
    /\ UNCHANGED mergeVars

\* The steps of the ended archiver, with a chat that grows between runs.
GrowthNext ==
    \/ StartEnded
    \/ EndedSessionReply
    \/ EndedPageReply
    \/ UpstreamChatGrows

\* The archiver steps, with an upstream whose chat changes between runs.
RefetchNext ==
    \/ StartLive
    \/ StartEnded
    \/ LiveSessionReply
    \/ EndedSessionReply
    \/ LivePageReply
    \/ EndedPageReply
    \/ RunAborts
    \/ SessionExpires
    \/ UpstreamChatChanges

\* Before the first archiver run: Discovery has written the registry, no
\* cursor store and no transcript exist, every session is open.
ArchiverInit(registries, chats) ==
    /\ videosJson \in {OkFile(r) : r \in registries}
    /\ dPhase = "parked"
    /\ dFirst = MissingFile
    /\ dSiblings = {}
    /\ dCollected = <<>>
    /\ dDetails = NoDetails
    /\ upChat \in chats
    /\ envForce = {}
    /\ disallowIds \in DisallowChoices
    /\ upLiveChatId = [v \in ArchiveIds |-> HandleOf(v)]
    /\ commentsState = MissingState
    /\ commentFiles = [v \in ArchiveIds |-> MissingTranscript]
    /\ pc = "idle"
    /\ mode = "none"
    /\ videos = <<>>
    /\ state = NoCursors
    /\ processed = 0
    /\ idx = 0
    /\ liveChatId = Null
    /\ pageToken = Null
    /\ pagesFetched = 0
    /\ newMessages = <<>>
    /\ maxPages = 0
    /\ reqPages = NoRequests
    /\ reqSession = {}
    /\ chain = NoChains
    /\ visit = NoVisits

ArchiverParked ==
    /\ upChat = OnePageChat
    /\ envForce = {}
    /\ disallowIds = {}
    /\ upLiveChatId = [v \in ArchiveIds |-> Null]
    /\ commentsState = MissingState
    /\ commentFiles = [v \in ArchiveIds |-> MissingTranscript]
    /\ pc = "parked"
    /\ mode = "none"
    /\ videos = <<>>
    /\ state = NoCursors
    /\ processed = 0
    /\ idx = 0
    /\ liveChatId = Null
    /\ pageToken = Null
    /\ pagesFetched = 0
    /\ newMessages = <<>>
    /\ maxPages = 0
    /\ reqPages = NoRequests
    /\ reqSession = {}
    /\ chain = NoChains
    /\ visit = NoVisits

(***************************************************************************)
(* Specifications.                                                         *)
(***************************************************************************)
InitMerge == MergeInit /\ DiscParked /\ ArchiverParked
SpecMerge == InitMerge /\ [][MergeNext]_vars

InitDiscovery == DiscInit /\ MergeParked /\ ArchiverParked
SpecDiscovery == InitDiscovery /\ [][DiscNext]_vars

SpecIsolation == InitDiscovery /\ [][IsolationNext]_vars

SpecOrdering == InitDiscovery /\ [][OrderingNext]_vars

SpecStatus == InitDiscovery /\ [][StatusNext]_vars

\* Archiver runs over every small registry and every short chat, and over
\* registries with more candidates than a run may process.
InitArchiver ==
    /\ MergeParked
    /\ \/ ArchiverInit(RegistriesOver(MaxVideos), ShortChats)
       \/ ArchiverInit({UniformRegistry(n, s) : n \in (MaxVideos + 1)..MaxCandidates,
                                                s \in {"live", "ended"}},
                       {OnePageChat})
SpecArchiver == InitArchiver /\ [][ArchiverNext]_vars

\* Archiver runs on one video whose chat is longer than a page budget.
InitQuota ==
    /\ MergeParked
    /\ ArchiverInit({UniformRegistry(1, s) : s \in {"live", "ended"}}, QuotaChats)
SpecQuota == InitQuota /\ [][ArchiverNext]_vars

\* Archiver runs over every small registry while upstream's chat changes
\* from run to run.
InitRefetch ==
    /\ MergeParked
    /\ ArchiverInit(RegistriesOver(MaxVideos), ShortChats)
SpecRefetch == InitRefetch /\ [][RefetchNext]_vars

\* The ended archiver is run again and again on one ended video whose
\* session stays and whose chat is fixed; upstream answers every call.
InitDrain ==
    /\ MergeParked
    /\ ArchiverInit({UniformRegistry(1, "ended")}, DrainChats)
SpecDrain == InitDrain /\ [][DrainNext]_vars

\* Archiver runs on one video while the cursor store is lost again and
\* again.
InitColdStart ==
    /\ MergeParked
    /\ ArchiverInit({UniformRegistry(1, s) : s \in {"live", "ended"}}, ColdStartChats)
SpecColdStart == InitColdStart /\ [][ColdStartNext]_vars

\* Archiver runs over every small registry, files becoming unreadable
\* between runs.
InitDamage ==
    /\ MergeParked
    /\ ArchiverInit(RegistriesOver(MaxVideos), DamageChats)
SpecDamage == InitDamage /\ [][DamageNext]_vars

\* Chats without messages, of one page, and longer than the page budget of
\* a later run.
PageBudgetChats ==
    {PagesChat(<<>>, FALSE), OnePageChat, LongChat(LATER_RUN_MAX_PAGES + 2, FALSE)}

\* Runs of fetch_comments.js on one live video.
InitPageBudget ==
    /\ MergeParked
    /\ ArchiverInit({UniformRegistry(1, "live")}, PageBudgetChats)
SpecPageBudget == InitPageBudget /\ [][PageBudgetNext]_vars

\* Archiver runs over more live or ended videos than a run takes, against
\* an upstream that answers every request with a page and a next token.
InitTermination ==
    /\ MergeParked
    /\ ArchiverInit({UniformRegistry(MaxCandidates, s) : s \in {"live", "ended"}},
                    {EndlessChat})
SpecTermination == InitTermination /\ [][ReturningNext]_vars

\* Runs of the ended archiver over two ended videos whose chat grows from
\* one page to more pages than a run reads.
InitGrowth ==
    /\ MergeParked
    /\ ArchiverInit({UniformRegistry(2, "ended")}, {OnePageChat})
SpecGrowth == InitGrowth /\ [][GrowthNext]_vars

\* Archiver runs over every small registry, videos.json going away between
\* runs.
InitNoRegistry ==
    /\ MergeParked
    /\ ArchiverInit(RegistriesOver(MaxVideos), DamageChats)
SpecNoRegistry == InitNoRegistry /\ [][NoRegistryNext]_vars

(***************************************************************************)
(* Claims on the merge.                                                    *)
(***************************************************************************)
NoDuplicateKeys(s) == \A i, j \in DOMAIN s : MsgKey(s[i]) = MsgKey(s[j]) => i = j

Contains(s, msg) == \E i \in DOMAIN s : s[i] = msg

\* C1: after the merge of a batch N into a transcript E, the merged list
\* holds every message of E, every message of N whose key is not in E, no two
\* messages with the same (t, m) key, and is sorted ascending by timestamp.
C1_DedupCorrectness ==
    mStage = "merged" =>
        /\ \A i \in DOMAIN mExisting : Contains(mMerged, mExisting[i])
        /\ \A i \in DOMAIN mNew :
              MsgKey(mNew[i]) \notin existingTimestamps(mExisting)
                  => Contains(mMerged, mNew[i])
        /\ NoDuplicateKeys(mMerged)
        /\ IsSortedByDate(mMerged)

\* C2: merging the same batch N into merge(E, N) once more yields exactly
\* merge(E, N): same messages, same order.
C2_IdempotentMerge == mStage = "remerged" => mAgain = mMerged

\* A re-merge in which the first merge both added a message of the batch and
\* dropped one of them as already stored.
C2_Witness ==
    /\ mStage = "remerged"
    /\ Len(mMerged) > Len(mExisting)
    /\ Len(mMerged) < Len(mExisting) + Len(mNew)

(***************************************************************************)
(* Claims on Discovery.                                                    *)
(***************************************************************************)
RegistryIds(file) == {file.entries[i].videoId : i \in DOMAIN file.entries}

HasChatFetched(file, v) ==
    \E i \in DOMAIN file.entries :
        file.entries[i].videoId = v /\ file.entries[i].chatFetched

\* A step in which a Discovery run wrote videos.json.
DiscoveryWrote == dPhase' = "ran"

\* C4: a video whose registry entry has chatFetched=true before a Discovery
\* run still has chatFetched=true in the registry after that run, whatever
\* upstream returned (no data for a channel, a video omitted).
C4_ChatFetchedSurvivesDiscovery ==
    [][DiscoveryWrote =>
          \A v \in VideoIds :
              HasChatFetched(videosJson, v) => HasChatFetched(videosJson', v)]_vars

\* C8: a Discovery run right after another, with upstream answering the
\* same, writes the registry the first run wrote: same entries, same order,
\* same fields, chatFetched included.
C8_IdempotentDiscovery == dPhase = "reran" => videosJson = dFirst

\* A second run over a registry of two entries of which the archiver had
\* completed one before the first run.
C8_Witness ==
    /\ dPhase = "reran"
    /\ Len(videosJson.entries) >= 2
    /\ \E i, j \in DOMAIN videosJson.entries :
          videosJson.entries[i].chatFetched /\ ~videosJson.entries[j].chatFetched

\* C9: every videoId of the registry before a Discovery run is in the
\* registry after it, whatever upstream returned in that run.
C9_EntriesNeverDeleted ==
    [][DiscoveryWrote => RegistryIds(videosJson) \subseteq RegistryIds(videosJson')]_vars

\* C10: no two entries of a registry written by Discovery share a videoId,
\* also when upstream lists an id twice (in one listing or in two channels').
C10_UniqueVideoIds ==
    dPhase \in {"ran", "reran"} =>
        \A i, j \in DOMAIN videosJson.entries :
            videosJson.entries[i].videoId = videosJson.entries[j].videoId => i = j

\* upcoming, live, ended in their forward order.
StatusRank(status) ==
    IF status = "upcoming" THEN 0 ELSE IF status = "live" THEN 1 ELSE 2

\* C11: the status of a registry entry only moves forward (upcoming, live,
\* ended): an entry of the registry that is still in the registry after a
\* step has a status of the same or a later rank, whatever upstream
\* reported in the run that made the step.
C11_StatusMonotonic ==
    [][\A i \in DOMAIN videosJson.entries : \A j \in DOMAIN videosJson'.entries :
          videosJson.entries[i].videoId = videosJson'.entries[j].videoId =>
              StatusRank(videosJson.entries[i].status)
                  <= StatusRank(videosJson'.entries[j].status)]_vars

\* C19: when the upstream query of one channel fails or returns no data
\* in a Discovery run, the run still writes the registry, and the registry
\* holds the videos of every other channel.
C19_ChannelIsolation ==
    dPhase = "aborted" =>
        /\ videosJson.kind = "ok"
        /\ dSiblings \subseteq RegistryIds(videosJson)

(***************************************************************************)
(* Claims on the archivers.                                                *)
(***************************************************************************)
\* The videos a run has made an upstream call for (session or chat page).
attempted == reqSession \cup {v \in ArchiveIds : reqPages[v] > 0}

SessionIdOf(v) == commentsState.entries[v].liveChatId

\* C3: when a fetch that began with the first page stops on the page budget
\* with a token left, and later runs resume from the stored token until
\* upstream has no further page, the transcript is the one a single run
\* with budget for every page would have written from the same start.
C3_Resumability ==
    \A v \in ArchiveIds :
        chain[v].phase = "resumed" =>
            commentFiles[v].messages = MergeMessages(chain[v].base, PagesFrom(upChat, 1))

\* C5 (as claimed): once a video has chatFetched=true in the registry, no
\* archiver step changes its chatFetched, the session id of its cursor or
\* its transcript, whatever the configuration.
C5_TerminalStability ==
    [][\A v \in ArchiveIds :
          HasChatFetched(videosJson, v) =>
              /\ HasChatFetched(videosJson', v)
              /\ SessionIdOf(v)' = SessionIdOf(v)
              /\ commentFiles'[v] = commentFiles[v]]_vars

\* C5 (amended): chatFetched=true stays true under every archiver step; the
\* session id of the cursor and the transcript stay as they are under every
\* step except those of an ended-archiver run whose FORCE_FETCH_VIDEO_IDS
\* names the video.
C5_TerminalStabilityUnlessForced ==
    [][\A v \in ArchiveIds :
          HasChatFetched(videosJson, v) =>
              /\ HasChatFetched(videosJson', v)
              /\ \/ mode' = "ended" /\ v \in envForce'
                 \/ /\ SessionIdOf(v)' = SessionIdOf(v)
                    /\ commentFiles'[v] = commentFiles[v]]_vars

\* An ended-archiver run is over that passed by a video completed by an
\* earlier run, whose session has since gone.
C5_Witness ==
    /\ pc = "done"
    /\ mode = "ended"
    /\ \E v \in ArchiveIds :
          /\ HasChatFetched(videosJson, v)
          /\ commentFiles[v].kind = "ok"
          /\ upLiveChatId[v] = Null
          /\ Truthy(SessionIdOf(v))
          /\ v \notin attempted
          /\ attempted # {}

\* C6: a run makes upstream calls for at most MAX_VIDEOS_PER_RUN videos,
\* sessions that turn out to be null included.
C6_VideoBudget ==
    mode \in {"live", "ended"} => Cardinality(attempted) <= MAX_VIDEOS_PER_RUN(mode)

\* C7: a run requests at most MAX_PAGES_PER_RUN chat pages for a video:
\* never more than the budget of the fetch in progress, and never more
\* than the largest budget of its archiver.
C7_PageBudget ==
    /\ \A v \in ArchiveIds :
          reqPages[v] <= IF mode = "ended" THEN ENDED_MAX_PAGES ELSE FIRST_RUN_MAX_PAGES
    /\ pc = "page" =>
          /\ reqPages[videos[idx].videoId] <= maxPages
          /\ maxPages \in IF mode = "ended" THEN {ENDED_MAX_PAGES}
                          ELSE {FIRST_RUN_MAX_PAGES, LATER_RUN_MAX_PAGES}

\* Upstream answers every request with a message and a token; the run has
\* stopped after exactly the budget of a first run and stored the token.
C7_Witness ==
    /\ pc = "done"
    /\ upChat.kind = "endless"
    /\ \E v \in ArchiveIds :
          /\ reqPages[v] = FIRST_RUN_MAX_PAGES
          /\ Truthy(commentsState.entries[v].nextPageToken)
\* The registry entry of video v is marked chatFetched.
IsFetched(v) == HasChatFetched(videosJson, v)

\* The same messages, each as often in s as in q.
SameMessages(s, q) ==
    /\ Len(s) = Len(q)
    /\ \A i \in DOMAIN q :
          Cardinality({j \in DOMAIN s : s[j] = q[i]})
              = Cardinality({j \in DOMAIN q : q[j] = q[i]})

\* A run of the ended archiver has ended in which the fetch loop of v left
\* with pageToken null (no further token, or a page without items).
EndedExhausted(v) ==
    /\ pc = "done"
    /\ mode = "ended"
    /\ visit[v].stop = "exhausted"

\* What C12 demands of v after the run.
ExhaustionIsTerminal(v) ==
    /\ IsFetched(v)
    /\ commentsState.entries[v].nextPageToken = Null
    /\ commentFiles[v].kind = "ok"
    /\ SameMessages(commentFiles[v].messages, visit[v].msgs)
    /\ IsSortedByDate(commentFiles[v].messages)

BudgetStopped(v) ==
    /\ pc = "done"
    /\ visit[v].stop = "budget"

\* C13: after a run whose fetch loop for a video stopped on the page budget
\* with a token still present, the cursor holds the token returned with the
\* last fetched page, chatFetched is false, and the transcript contains
\* the messages of all pages fetched.
C13_BudgetStopIsPartial ==
    \A v \in ArchiveIds :
        BudgetStopped(v) =>
            /\ commentsState.entries[v].nextPageToken = visit[v].tok
            /\ visit[v].tok = Page(upChat, visit[v].tok - 1).next
            /\ ~IsFetched(v)
            /\ commentFiles[v].kind = "ok"
            /\ \A i \in DOMAIN visit[v].msgs :
                  Contains(commentFiles[v].messages, visit[v].msgs[i])

\* A run of fetch_comments.js that resumed from a stored token and stopped
\* on the budget of a later run.
C13_Witness ==
    \E v \in ArchiveIds :
        /\ BudgetStopped(v)
        /\ mode = "live"
        /\ visit[v].fetched = LATER_RUN_MAX_PAGES
        /\ Len(commentFiles[v].messages) > LATER_RUN_MAX_PAGES

\* A run has ended in which upstream answered the session query for v
\* without a handle.
NullSessionFound(v) ==
    /\ pc = "done"
    /\ visit[v].stop = "nosession"

\* The entries after position i that the loop stops at: candidates whose
\* session is not already stored as null.
StopsAfter(i) ==
    {j \in (i + 1)..Len(videos) :
        /\ IsCandidate(mode, videos[j], processed, envForce)
        /\ ~(/\ mode = "live"
              /\ state[videos[j].videoId].liveChatId # Undefined
              /\ ~Truthy(state[videos[j].videoId].liveChatId))}

\* A step in which upstream answers the session query without a handle and
\* the run goes on.
NullSessionReply ==
    /\ pc = "session"
    /\ pc' # "aborted"
    /\ ~Truthy(upLiveChatId[videos[idx].videoId])

\* C14: when session resolution for a candidate yields no handle, the run
\* sets chatFetched=true for it, stores its cursor with liveChatId null,
\* issues no chat-page request for it, leaves its transcript file as it
\* was (absent or not), and continues with the next candidate.
C14_NullSessionTerminal ==
    /\ [](\A v \in ArchiveIds :
            NullSessionFound(v) =>
                /\ IsFetched(v)
                /\ commentsState.entries[v].liveChatId = Null
                /\ reqPages[v] = 0
                /\ commentFiles[v] = visit[v].before)
    /\ [][NullSessionReply =>
            IF StopsAfter(idx) = {}
            THEN /\ pc' = "done"
                 /\ videosJson'.entries[idx].chatFetched
            ELSE /\ pc' \in {"session", "page"}
                 /\ idx' = SetMin(StopsAfter(idx))
                 /\ videos'[idx].chatFetched]_vars

\* A run that found no session for one video and went on to read the chat
\* of the next to its end.
C14_Witness ==
    \E v, w \in ArchiveIds :
        /\ NullSessionFound(v)
        /\ visit[w].stop = "exhausted"
        /\ \E i, j \in DOMAIN videosJson.entries :
              /\ i < j
              /\ videosJson.entries[i].videoId = v
              /\ videosJson.entries[j].videoId = w

\* C15: once the cursor store records liveChatId null for a video, no
\* later run of either archiver asks upstream for its session or for a page
\* of its chat, also when the video is selected again.  (The store is
\* written at the end of a run, so during a run it holds what earlier runs
\* recorded.)
C15_NullSessionShortCircuit ==
    \A v \in ArchiveIds :
        (/\ pc \in {"session", "page"}
         /\ commentsState.kind = "ok"
         /\ SessionIdOf(v) = Null)
            => v \notin attempted

\* A run of fetch_comments.js has ended in which the fetch loop of v left
\* with pageToken null.
LiveExhausted(v) ==
    /\ pc = "done"
    /\ mode = "live"
    /\ visit[v].stop = "exhausted"

\* The files say that a run of fetch_comments.js exhausted the chat of v:
\* the stored token is '', the entry is live and not fetched.
LeftOpen(v) ==
    /\ commentsState.kind = "ok"
    /\ commentsState.entries[v].nextPageToken = EmptyToken
    /\ \E i \in DOMAIN videosJson.entries :
          /\ videosJson.entries[i].videoId = v
          /\ videosJson.entries[i].status = "live"
          /\ ~videosJson.entries[i].chatFetched

\* A step that ends a run of fetch_comments.js; the files on its left are
\* the files the run started with.
LiveRunEnds ==
    /\ mode' = "live"
    /\ pc' = "done"
    /\ upLiveChatId' = upLiveChatId

\* C16: when the fetch loop of fetch_comments.js stops because upstream
\* reported no further token or an empty page, the stored nextPageToken
\* becomes '' (not null) and chatFetched stays false; the next run of
\* fetch_comments.js selects the video again and sends its first request
\* without a page token.
C16_LiveExhaustionNotTerminal ==
    /\ [](\A v \in ArchiveIds :
            LiveExhausted(v) =>
                /\ commentsState.entries[v].nextPageToken = EmptyToken
                /\ ~IsFetched(v))
    /\ [][\A v \in ArchiveIds \ disallowIds :
            LiveRunEnds /\ LeftOpen(v) => visit'[v].stop \in {"exhausted", "budget"}]_vars
    /\ [](\A v \in ArchiveIds :
            (/\ mode = "live"
             /\ pc = "page"
             /\ videos[idx].videoId = v
             /\ reqPages[v] = 1
             /\ LeftOpen(v)) => pageToken = EmptyToken)

\* A run of fetch_comments.js that came back to a video an earlier run had
\* read to the end, took the session from the cursor store and read the
\* chat to the end again.
C16_Witness ==
    \E v \in ArchiveIds :
        /\ LiveExhausted(v)
        /\ visit[v].before.kind = "ok"
        /\ v \notin reqSession
        /\ Len(visit[v].msgs) > 0

\* The visit of v in this run wrote the transcript file of v.
WroteTranscript(v) == visit[v].stop \in {"exhausted", "budget"}

\* C17: when a run of either archiver writes the transcript of a video,
\* every message the stored transcript held before the write is in it
\* after the write.
C17_NeverTruncated ==
    \A v \in ArchiveIds :
        WroteTranscript(v) =>
            \A i \in DOMAIN visit[v].before.messages :
                Contains(commentFiles[v].messages, visit[v].before.messages[i])

\* The cursor store on disk holds what the visit of v established: the
\* null session, or the session handle and the token the visit ended with.
CursorOnDisk(v) ==
    /\ commentsState.kind = "ok"
    /\ IF visit[v].stop = "nosession"
       THEN SessionIdOf(v) = Null
       ELSE /\ Truthy(SessionIdOf(v))
            /\ commentsState.entries[v].nextPageToken
                  \in {visit[v].tok, nextPageTokenAfter(mode, visit[v].tok, "live")}

\* C18: once the processing of a video is complete and the run has moved
\* on (it waits for an upstream call for a later candidate, or it was
\* aborted there), the transcript of the video and its cursor-store entry
\* are on disk.
C18_DurableBeforeNext ==
    \A v \in ArchiveIds :
        (pc \in {"session", "page", "aborted"} /\ visit[v].stop # "none") =>
            /\ WroteTranscript(v) => commentFiles[v].kind = "ok"
            /\ CursorOnDisk(v)

\* C20: a step in which the upstream call for a candidate fails (it
\* throws, or its response is malformed) does not abort the run: the run
\* goes on to the next candidate's upstream call, or to the final writes of
\* videos.json and comments_state.json.
C20_VideoIsolation ==
    [][RunAborts =>
          \/ pc' \in {"session", "page"}
          \/ /\ pc' = "done"
             /\ commentsState'.kind = "ok"]_vars

\* A step in which main() of an archiver begins.
RunStarts == StartLive \/ StartEnded \/ StartFails

\* C21: a run that finds the registry, the cursor store or a transcript
\* unreadable treats the file as absent or empty and goes on: its first
\* step leaves it waiting for an upstream call or at its final writes, not
\* aborted.
C21_CorruptNeverFatal ==
    [][(/\ RunStarts
        /\ \/ videosJson.kind = "corrupt"
           \/ commentsState.kind = "corrupt"
           \/ \E v \in ArchiveIds : commentFiles[v].kind = "corrupt")
          => pc' \in {"session", "page", "done"}]_vars

\* How often msg occurs in s.
Count(s, msg) == Cardinality({i \in DOMAIN s : s[i] = msg})

\* What one read of the whole chat returns.
FullRead == PagesFrom(upChat, 1)

\* The transcript of v holds no message more often than one read of the
\* chat returns it (for the long chats: it is no longer than the chat).
NoAddedDuplicate(v) ==
    LET msgs == commentFiles[v].messages
    IN  IF upChat.kind = "long"
        THEN Len(msgs) <= upChat.n
        ELSE \A i \in DOMAIN msgs : Count(msgs, msgs[i]) <= Count(FullRead, msgs[i])

\* The transcript of v and one read of the whole chat hold the same
\* messages.
HoldsWholeChat(v) ==
    LET msgs == commentFiles[v].messages
    IN  /\ \A i \in DOMAIN FullRead : Contains(msgs, FullRead[i])
        /\ \A i \in DOMAIN msgs : Contains(FullRead, msgs[i])

\* C22: when the cursor store is lost between runs while registry and
\* transcripts stay, the following runs fetch again from the first page,
\* the pages fetched again add no duplicate message, and the transcript of
\* a video whose chat was read to the end holds the messages of the chat,
\* as it does with the cursor store intact.
C22_ColdStartSafe ==
    \A v \in ArchiveIds :
        /\ NoAddedDuplicate(v)
        /\ (pc = "done" /\ visit[v].stop = "exhausted") => HoldsWholeChat(v)
        /\ (/\ pc = "page"
            /\ videos[idx].videoId = v
            /\ reqPages[v] = 1
            /\ commentsState.kind = "missing") => pageToken = EmptyToken

\* A run of fetch_comments.js that found a transcript with messages but no
\* cursor store, asked upstream for the session again, fetched pages that
\* were in the transcript already, and stopped on the budget of a later
\* run.
C22_Witness ==
    \E v \in ArchiveIds :
        /\ pc = "done"
        /\ mode = "live"
        /\ v \in reqSession
        /\ visit[v].stop = "budget"
        /\ visit[v].fetched = LATER_RUN_MAX_PAGES
        /\ Len(visit[v].before.messages) >= LATER_RUN_MAX_PAGES
        /\ commentFiles[v].messages = visit[v].before.messages

\* A step that ends the visit of v in a run of the ended archiver which
\* had found a token stored for v: an earlier run had stopped there.
EndsResumedVisit(v) ==
    /\ mode = "ended"
    /\ pc = "page"
    /\ videos[idx].videoId = v
    /\ visit'[v].stop # "none"
    /\ commentsState.kind = "ok"
    /\ Truthy(commentsState.entries[v].nextPageToken)

\* C23: repeated runs of the ended archiver drain a fixed finite chat of
\* any length: a run that finds the token of a partial run resumes there,
\* so it ends with the chat exhausted (chatFetched=true) or with a token
\* further along the chain of pages than the one it found.
C23_DrainToCompletion ==
    [][\A v \in ArchiveIds :
          EndsResumedVisit(v) =>
              \/ visit'[v].stop = "exhausted"
              \/ visit'[v].tok > commentsState.entries[v].nextPageToken]_vars

\* chatFetched is false and the status is the target status of archiver md.
Eligible(md, video) == ~video.chatFetched /\ video.status = md

\* The entries of vs after position i that are eligible for archiver md and
\* not on `skip`.
EligibleAfter(md, vs, i, skip) ==
    {j \in (i + 1)..Len(vs) : Eligible(md, vs[j]) /\ vs[j].videoId \notin skip}

\* The run waits for an upstream call for videos[idx]: every eligible
\* entry before it (not on `skip`) was visited.
EarlierVisited(skip) ==
    \A j \in 1..(idx - 1) :
        (Eligible(mode, videos[j]) /\ videos[j].videoId \notin skip)
            => visit[videos[j].videoId].stop # "none"

\* A step that ends a run which had waited for videos[idx]; `processed`
\* after the step is below the budget of videos per run.
EndsBelowBudget ==
    /\ pc \in {"session", "page"}
    /\ pc' = "done"
    /\ processed + (IF visit'[videos[idx].videoId].stop \in {"exhausted", "budget"}
                    THEN 1 ELSE 0) < MAX_VIDEOS_PER_RUN(mode)

\* A step that is a whole run: no entry made it wait for upstream.
RunsThrough == (StartLive \/ StartEnded) /\ pc' = "done"

\* C24 as stated: a run attempts a video only if its chatFetched is false
\* and its status is the archiver's target status, and every such video is
\* a candidate: the run does not pass it over.
C24_CandidateSelection ==
    /\ [](pc \in {"session", "page"} =>
            /\ Eligible(mode, videos[idx])
            /\ EarlierVisited({}))
    /\ [][/\ EndsBelowBudget => EligibleAfter(mode, videos, idx, {}) = {}
          /\ RunsThrough => EligibleAfter(mode', videosJson.entries, 0, {}) = {}]_vars

\* The ids fetch_comments.js passes over: its disallow list.
Skipped(md) == IF md = "live" THEN disallowIds ELSE {}

\* C24, amended: a run attempts a video only if it is eligible or, in the
\* ended archiver, listed in FORCE_FETCH_VIDEO_IDS; and it passes over no
\* eligible video except, in fetch_comments.js, those on the disallow
\* list, and those left when the budget of videos per run is used up.
C24_CandidateSelectionWithLists ==
    /\ [](pc \in {"session", "page"} =>
            /\ \/ Eligible(mode, videos[idx])
               \/ mode = "ended" /\ videos[idx].videoId \in envForce
            /\ videos[idx].videoId \notin Skipped(mode)
            /\ EarlierVisited(Skipped(mode)))
    /\ [][/\ EndsBelowBudget => EligibleAfter(mode, videos, idx, Skipped(mode)) = {}
          /\ RunsThrough =>
                EligibleAfter(mode', videosJson.entries, 0, Skipped(mode')) = {}]_vars

\* A run of fetch_comments.js that passed over an eligible video on the
\* disallow list and waits for upstream for the next eligible video.
C24_Witness ==
    /\ mode = "live"
    /\ pc = "page"
    /\ idx = 2
    /\ Eligible("live", videos[1])
    /\ videos[1].videoId \in disallowIds
    /\ Eligible("live", videos[2])

\* The first chat-page request of the run for videos[idx] is outstanding.
FirstRequestOut == pc = "page" /\ pagesFetched = 0 /\ newMessages = <<>>

\* The token the cursor store holds for v; none and '' both mean no token.
StoredToken(v) ==
    IF Truthy(state[v].nextPageToken) THEN state[v].nextPageToken ELSE EmptyToken

\* C25: in both archivers the first chat-page request for a video carries
\* the continuation token the cursor store holds for it, and carries no
\* token only when the store holds none or an empty one.
C25_ResumesAtStoredCursor ==
    FirstRequestOut => pageToken = StoredToken(videos[idx].videoId)

\* The entries of date d, in their order, without chatFetched.
OfDate(s, d) ==
    LET same == SelectSeq(s, LAMBDA x : DateOf(x.publishedAt) = d)
    IN  [i \in DOMAIN same |->
            <<same[i].videoId, same[i].channelKey, same[i].publishedAt, same[i].status>>]

\* C26: the registry a Discovery run writes is sorted ascending by
\* publishedAt, and entries of equal publishedAt stand in the order in
\* which the channel loop collected them (channel by channel, each in
\* upstream's listing order).
C26_RegistryOrdering ==
    dPhase = "dated" =>
        /\ videosJson.kind = "ok"
        /\ \A i, j \in DOMAIN videosJson.entries :
              i < j => DateOf(videosJson.entries[i].publishedAt)
                          <= DateOf(videosJson.entries[j].publishedAt)
        /\ \A d \in {DateOf(t) : t \in Timestamps} :
              OfDate(videosJson.entries, d) = OfDate(dCollected, d)

\* A run wrote two different videos of equal date.
C26_Witness ==
    /\ dPhase = "dated"
    /\ \E i, j \in DOMAIN videosJson.entries :
          /\ i < j
          /\ videosJson.entries[i].videoId # videosJson.entries[j].videoId
          /\ DateOf(videosJson.entries[i].publishedAt)
                = DateOf(videosJson.entries[j].publishedAt)

\* The status the derivation rule gives for what upstream reports.
DerivedStatus(kind) ==
    CASE kind = "ended" -> "ended"
      [] kind = "started" -> "live"
      [] OTHER -> "upcoming"

\* C27: the status Discovery writes for an eligible video is ended when
\* upstream reports an end time, live when it reports a start time and no
\* end time, and upcoming when it reports neither.
C27_StatusDerivation ==
    dPhase = "detailed" =>
        \A i \in DOMAIN videosJson.entries :
            videosJson.entries[i].status
                = DerivedStatus(dDetails[videosJson.entries[i].videoId])

\* The run waits for an upstream answer.
Waiting == pc \in {"session", "page"}

\* Every video other than the one at idx that this run asked upstream
\* about has been finished.
OthersFinished ==
    \A v \in ArchiveIds :
        (v # videos[idx].videoId /\ (reqPages[v] > 0 \/ v \in reqSession))
            => visit[v].stop # "none"

\* C28: a run takes its candidates in registry order, one at a time: it
\* has one request outstanding, for the video at idx, and has finished
\* every other video it asked about; idx only grows; and a further
\* chat-page request for the same video carries the token of the response
\* just received.
C28_ProcessingOrder ==
    /\ [](Waiting =>
            /\ OthersFinished
            /\ visit[videos[idx].videoId].stop = "none"
            /\ reqPages[videos[idx].videoId]
                  = IF pc = "page" THEN pagesFetched + 1 ELSE 0)
    /\ [][(Waiting /\ Waiting') =>
            /\ idx' >= idx
            /\ idx' > idx => visit'[videos[idx].videoId].stop # "none"
            /\ (pc = "page" /\ idx' = idx) =>
                  /\ pc' = "page"
                  /\ pageToken' = Page(upChat, pageToken).next]_vars

\* The run has finished one video and waits for the second page of a
\* later one.
C28_Witness ==
    /\ pc = "page"
    /\ pagesFetched = 1
    /\ idx > 1
    /\ visit[videos[1].videoId].stop = "exhausted"

\* The response the outstanding chat-page request is about to get.
Incoming == Page(upChat, pageToken)

\* The step takes a response that ends pagination as exhausted, and leaves
\* what exhaustion leaves: the transcript made of the messages gathered,
\* the cursor without a page token to go on from, and chatFetched set
\* unless the video is live (fetch_comments.js) or force-fetched (the
\* ended archiver).
LeavesExhausted ==
    LET v == videos[idx].videoId
        video == videos[idx]
        existing == IF commentFiles[v].kind = "ok" THEN commentFiles[v].messages ELSE <<>>
        gathered == newMessages \o Incoming.items
        cursor == IF pc' = "done" THEN commentsState'.entries[v] ELSE state'[v]
        fetched == IF pc' = "done" THEN videosJson'.entries[idx].chatFetched
                   ELSE videos'[idx].chatFetched
    IN  /\ visit'[v].stop = "exhausted"
        /\ commentFiles'[v].kind = "ok"
        /\ commentFiles'[v].messages
              = IF mode = "live"
                THEN SortByDate(existing \o uniqueNewMessages(existing, gathered))
                ELSE SortByDate(gathered)
        /\ cursor.liveChatId = liveChatId
        /\ cursor.nextPageToken
              = IF mode = "live" /\ video.status = "live" THEN EmptyToken ELSE Null
        /\ fetched = \/ video.chatFetched
                     \/ IF mode = "live" THEN video.status # "live" ELSE v \notin envForce

\* C29: in the fetch loop a response without items, whatever next token
\* it carries, leaves the same cursor state, chatFetched value and
\* transcript as a response with items and no next token.
C29_EmptyPageIsExhaustion ==
    [][(pc = "page" /\ pc' # "aborted") =>
          /\ Incoming.items = <<>> => LeavesExhausted
          /\ (Incoming.items # <<>> /\ ~Truthy(Incoming.next)) => LeavesExhausted]_vars

\* A run of the ended archiver finished a video on a response that had no
\* items and carried a next token.
C29_Witness ==
    /\ mode = "ended"
    /\ pc = "done"
    /\ \E v \in ArchiveIds :
          /\ visit[v].stop = "exhausted"
          /\ Page(upChat, visit[v].fetched).items = <<>>
          /\ Truthy(Page(upChat, visit[v].fetched).next)

\* Entry e as entry f, chatFetched apart.
SameButChatFetched(e, f) == [e EXCEPT !.chatFetched = f.chatFetched] = f

\* C30: an archiver run leaves the number and the order of the registry
\* entries as they are, changes no field of an entry but chatFetched
\* (status stays, also when the session of a live video resolves to
\* null), and changes chatFetched from false to true only.
C30_ArchiverFrame ==
    /\ [](videosJson.kind = "ok")
    /\ [][/\ Len(videosJson'.entries) = Len(videosJson.entries)
          /\ \A i \in DOMAIN videosJson.entries :
                /\ SameButChatFetched(videosJson.entries[i], videosJson'.entries[i])
                /\ videosJson.entries[i].chatFetched
                      => videosJson'.entries[i].chatFetched]_vars

\* A run of fetch_comments.js closed a live video without a session and
\* wrote the registry: chatFetched is set and the status is still live.
C30_Witness ==
    /\ mode = "live"
    /\ pc = "done"
    /\ \E i \in DOMAIN videosJson.entries :
          /\ visit[videosJson.entries[i].videoId].stop = "nosession"
          /\ videosJson.entries[i].chatFetched
          /\ videosJson.entries[i].status = "live"

\* C31: a run of either archiver that finds no videos.json aborts (exit
\* code 1) without an upstream call and leaves videos.json,
\* comments_state.json and every transcript as they are.
C31_MissingRegistryFatal ==
    [][(RunStarts /\ videosJson.kind = "missing") =>
          /\ pc' = "aborted"
          /\ reqPages' = NoRequests
          /\ reqSession' = {}
          /\ UNCHANGED <<videosJson, commentsState, commentFiles>>]_vars

\* A run aborted on a missing videos.json after an earlier run had written
\* the cursor store and a transcript.
C31_Witness ==
    /\ pc = "aborted"
    /\ videosJson.kind = "missing"
    /\ commentsState.kind = "ok"
    /\ \E v \in ArchiveIds : commentFiles[v].kind = "ok"

\* The transcript of v holds no message: the file is missing, unreadable,
\* or has an empty message list.
NoStoredMessages(v) ==
    commentFiles[v].kind # "ok" \/ commentFiles[v].messages = <<>>

\* C32: while fetch_comments.js fetches the pages of a video, its page
\* budget is 1000 exactly when the video has no stored message and no
\* stored non-empty page token, and 10 in every other case.
C32_LivePageBudget ==
    (mode = "live" /\ pc = "page") =>
        LET v == videos[idx].videoId
        IN  maxPages = IF /\ NoStoredMessages(v)
                          /\ state[v].nextPageToken \in {Undefined, Null, EmptyToken}
                       THEN 1000
                       ELSE 10

\* fetch_comments.js fetches with the budget of 10 pages a video whose
\* transcript is unreadable, because a page token is stored for it.
C32_Witness ==
    /\ mode = "live"
    /\ pc = "page"
    /\ commentFiles[videos[idx].videoId].kind = "corrupt"
    /\ maxPages = 10

\* C33: a run of the ended archiver leaves chatFetched of every video
\* listed in FORCE_FETCH_VIDEO_IDS as it was, whether its chat was read to
\* the end, read in part, or had no session.
C33_ForceFetchKeepsChatFetched ==
    [][(mode' = "ended" /\ videosJson'.kind = "ok" /\ videosJson.kind = "ok") =>
          \A i \in DOMAIN videosJson.entries :
              videosJson.entries[i].videoId \in envForce' =>
                  videosJson'.entries[i].chatFetched
                      = videosJson.entries[i].chatFetched]_vars

\* C34: a run of fetch_comments.js sets chatFetched of a video only when
\* the session handle it used for the video, freshly asked for or stored,
\* is null; a video whose pages it read to the end keeps chatFetched =
\* false.
C34_LiveClosesOnNullSessionOnly ==
    [][(mode' = "live" /\ videosJson'.kind = "ok" /\ videosJson.kind = "ok") =>
          \A i \in DOMAIN videosJson.entries :
              LET v == videosJson.entries[i].videoId
              IN  (~videosJson.entries[i].chatFetched
                      /\ videosJson'.entries[i].chatFetched)
                    => \/ visit'[v].stop = "nosession"
                       \/ /\ visit'[v].stop = "none"
                          /\ commentsState.kind = "ok"
                          /\ commentsState.entries[v].liveChatId = Null]_vars

\* A run of fetch_comments.js read the chat of one video to the end and
\* left it open, and closed another that had no session.
C34_Witness ==
    /\ mode = "live"
    /\ pc = "done"
    /\ \E i, j \in DOMAIN videosJson.entries :
          /\ visit[videosJson.entries[i].videoId].stop = "exhausted"
          /\ ~videosJson.entries[i].chatFetched
          /\ visit[videosJson.entries[j].videoId].stop = "nosession"
          /\ videosJson.entries[j].chatFetched

\* The transcripts this run has written.
WrittenInRun == {v \in ArchiveIds : visit[v].stop \in {"exhausted", "budget"}}

\* What is left of the run: the entries after idx, and for the entry at idx
\* the session request and the pages its budget allows.
Rank ==
    (Len(videos) - idx) * (FIRST_RUN_MAX_PAGES + 2)
        + IF pc = "page" THEN maxPages - pagesFetched ELSE FIRST_RUN_MAX_PAGES + 1

\* C35: a run ends whatever upstream answers: while it waits for an answer
\* it has issued at most 1000 page requests per video and written at most
\* MAX_VIDEOS_PER_RUN transcripts, and every answer either brings it to
\* its final writes of videos.json and comments_state.json or leaves less
\* of the run to do.
C35_RunTerminates ==
    /\ [](Waiting =>
            /\ Rank > 0
            /\ \A v \in ArchiveIds : reqPages[v] <= FIRST_RUN_MAX_PAGES
            /\ Cardinality(WrittenInRun) < MAX_VIDEOS_PER_RUN(mode))
    /\ [](pc = "done" => Cardinality(WrittenInRun) <= MAX_VIDEOS_PER_RUN(mode))
    /\ [][Waiting =>
            \/ /\ pc' = "done"
               /\ videosJson'.kind = "ok"
               /\ commentsState'.kind = "ok"
            \/ /\ Waiting'
               /\ Rank' < Rank]_vars

\* A run of the ended archiver against a chat that never ends stopped
\* three videos on their page budget, made its final writes, and left the
\* fourth video alone.
C35_Witness ==
    /\ mode = "ended"
    /\ pc = "done"
    /\ upChat.kind = "endless"
    /\ Cardinality({v \in ArchiveIds : visit[v].stop = "budget"}) = ENDED_MAX_VIDEOS_PER_RUN
    /\ \E i \in DOMAIN videosJson.entries :
          visit[videosJson.entries[i].videoId].stop = "none"

\* A step in which a run makes its final writes.
FinalWrites == (Waiting \/ RunsThrough) /\ pc' = "done"

\* The cursor of v as the run read it at its start.
CursorAsRead(v) ==
    IF commentsState.kind = "ok" THEN commentsState.entries[v] ELSE NoCursor

\* The cursor store written keeps the entry of every video the run did not
\* visit.
KeepsOtherCursors ==
    \A v \in ArchiveIds :
        visit'[v].stop = "none" => commentsState'.entries[v] = CursorAsRead(v)

\* Entry i of the written registry was stopped on the page budget in this
\* run, and the written cursor store holds the token to go on from.
TokenSetInRun(i) ==
    LET v == videosJson'.entries[i].videoId
    IN  /\ visit'[v].stop = "budget"
        /\ Truthy(commentsState'.entries[v].nextPageToken)

\* C36 as stated: the cursor store a run writes keeps the entry of every
\* video the run did not process, and every video for which the run
\* stored a page token has chatFetched = false in the registry it writes.
C36_CursorFrame ==
    [][FinalWrites =>
          /\ KeepsOtherCursors
          /\ \A i \in DOMAIN videosJson'.entries :
                TokenSetInRun(i) => ~videosJson'.entries[i].chatFetched]_vars

\* C36, amended: the same, except that a video listed in
\* FORCE_FETCH_VIDEO_IDS keeps the chatFetched it had when the ended
\* archiver stores a page token for it.
C36_CursorFrameUnlessForced ==
    [][FinalWrites =>
          /\ KeepsOtherCursors
          /\ \A i \in DOMAIN videosJson'.entries :
                TokenSetInRun(i) =>
                    \/ ~videosJson'.entries[i].chatFetched
                    \/ /\ mode' = "ended"
                       /\ videosJson'.entries[i].videoId \in envForce'
                       /\ videosJson.entries[i].chatFetched]_vars

\* A run of the ended archiver stored a page token for a force-fetched
\* video whose chat was fetched before, and left the cursor of another
\* video, written by an earlier run, as it was.
C36_Witness ==
    /\ pc = "done"
    /\ mode = "ended"
    /\ \E i, j \in DOMAIN videosJson.entries :
          LET v == videosJson.entries[i].videoId
              w == videosJson.entries[j].videoId
          IN  /\ v \in envForce
              /\ visit[v].stop = "budget"
              /\ Truthy(commentsState.entries[v].nextPageToken)
              /\ visit[w].stop = "none"
              /\ commentsState.entries[w] # NoCursor

====
